---- MODULE Spec2Model ----
(***************************************************************************)
(* The hydroclima2 heat cost allocator driver                              *)
(* (src/components/wmbus/driver_hydroclima2.cpp): the scalar decoders      *)
(* toTemperature and toIndicationU, DecodeDateTime, and                    *)
(* Driver::processContent, which walks the manufacturer specific payload   *)
(* of a telegram, stores four numeric values in the meter and adds one     *)
(* explanation per decoded segment to the telegram.                        *)
(*                                                                         *)
(* C++ vectors and arrays are indexed from 0, TLA+ sequences from 1: the   *)
(* operators At and Word do the shift, every other index is the C++ one.   *)
(***************************************************************************)
EXTENDS Integers, Sequences, FiniteSets, TLC

VARIABLES
    pc,               \* where the caller of processContent stands: idle, ready, done
    mfct_0f_index,    \* Telegram::mfct_0f_index, -1 when there is no mfct data
    header_size,      \* Telegram::header_size
    bytes,            \* what Telegram::extractMfctData yields for the telegram
    explanations,     \* the telegram's explanations (addSpecialExplanation appends)
    numeric_values,   \* the meter's stored values, by field name (setNumericValue)
    reads,            \* the indices at which the last call read the vector bytes
    first,            \* an earlier call, kept for comparison: <<>> or <<record>>
    encodedDate,      \* DecodeDateTime's first argument
    encodedTime,      \* DecodeDateTime's second argument
    decodedDateTime,  \* what DecodeDateTime returned: <<>> before the call
    tableReads        \* the indices at which DecodeDateTime read daysInMonths

vars == <<pc, mfct_0f_index, header_size, bytes, explanations, numeric_values,
          reads, first, encodedDate, encodedTime, decodedDateTime, tableReads>>

telegramVars == <<pc, mfct_0f_index, header_size, bytes, explanations,
                  numeric_values, reads, first>>

dateVars == <<encodedDate, encodedTime, decodedDateTime, tableReads>>

(***************************************************************************)
(* Bounds of the model.                                                    *)
(***************************************************************************)
\* The longest payload: every length 0..MaxLen is decoded (all seven segments
\* fit in 16 bytes).
MaxLen == 17

\* How many words below 512 may lie in memory right after daysInMonths before
\* a larger one.
OobWords == 1

(***************************************************************************)
(* Integer arithmetic of the C++ code.                                     *)
(***************************************************************************)
RECURSIVE BitOr(_, _)
BitOr(a, b) ==
    IF a = 0 THEN b
    ELSE IF b = 0 THEN a
    ELSE (IF a % 2 = 1 \/ b % 2 = 1 THEN 1 ELSE 0) + 2 * BitOr(a \div 2, b \div 2)

RECURSIVE BitAnd(_, _)
BitAnd(a, b) ==
    IF a = 0 \/ b = 0 THEN 0
    ELSE (IF a % 2 = 1 /\ b % 2 = 1 THEN 1 ELSE 0) + 2 * BitAnd(a \div 2, b \div 2)

ShiftLeft(a, n) == a * (2 ^ n)

ShiftRight(a, n) == a \div (2 ^ n)

\* A conversion to ushort / uint16_t.
U16(x) == x % 65536

(***************************************************************************)
(* The scalar decoders. A double is kept as the exact quotient num/den.    *)
(***************************************************************************)
toTemperature(hi, lo) == [num |-> BitOr(ShiftLeft(hi, 8), lo), den |-> 100]

\* toIndicationU with the two bytes taken in the other order.
toIndicationULowByteFirst(hi, lo) == [num |-> BitOr(ShiftLeft(lo, 8), hi), den |-> 10]

toIndicationU(hi, lo) == [num |-> BitOr(ShiftLeft(hi, 8), lo), den |-> 10]

(***************************************************************************)
(* DecodeDateTime.                                                         *)
(***************************************************************************)
daysInMonthsInit == <<31, 28, 31, 30, 31, 30, 31, 31, 30, 31, 30, 31>>

isLeapYear(year) == (year % 4 = 0 /\ year % 100 # 0) \/ (year % 400 = 0)

daysInMonths(year) ==
    IF isLeapYear(year) THEN [daysInMonthsInit EXCEPT ![2] = 29] ELSE daysInMonthsInit

\* daysInMonths[month] as the loop reads it. The array has 12 entries; an index
\* past them reads whatever the stack holds there (undefined behaviour): the
\* words of stack, one after the other.
Word(table, stack, month) ==
    IF month < Len(table) THEN table[month + 1] ELSE stack[month - Len(table) + 1]

\* while (dayOfYear > daysInMonths[month]) { dayOfYear -= daysInMonths[month]; month++; }
RECURSIVE MonthWalk(_, _, _, _)
MonthWalk(dayOfYear, month, table, stack) ==
    IF dayOfYear > Word(table, stack, month)
    THEN MonthWalk(U16(dayOfYear - Word(table, stack, month)), month + 1, table, stack)
    ELSE [dayOfYear |-> dayOfYear, month |-> month]

hourOf(time) == time \div 1800

minutesOf(time) == (time - (hourOf(time) * 1800)) \div 30

\* seconds with the remaining ticks doubled instead of halved.
secondsOfTimesTwo(time) == (time - (hourOf(time) * 1800) - (minutesOf(time) * 30)) * 2

secondsOf(time) == (time - (hourOf(time) * 1800) - (minutesOf(time) * 30)) \div 2

\* The string "%d-%02d-%02dT%02d:%02d:%02dZ" as the six numbers printed into it
\* (at most 21 characters for the values reached here, so snprintf never cuts
\* it at the 30 bytes of buf).
DecodeDateTime(date, time, stack) ==
    LET dayOfYear == U16(BitAnd(date, 511))
        yearOffset == U16(BitAnd(ShiftRight(date, 9), 127))
        year == yearOffset + 2000
        walk == MonthWalk(dayOfYear, 0, daysInMonths(year), stack)
    IN  <<year, walk.month, walk.dayOfYear, hourOf(time), minutesOf(time), secondsOf(time)>>

\* The indices of daysInMonths the loop condition was evaluated at: 0 up to the
\* month the walk ended with.
DecodeDateTimeReads(date, stack) ==
    0 .. DecodeDateTime(date, 0, stack)[2]

\* The memory after daysInMonths: at most OobWords words below 512 (no
\* dayOfYear is larger than 511), then a larger word, at which the walk ends.
SmallWords == {0, 30}

LargeWords == {4096}

StackImages ==
    UNION { { s \o <<w>> : s \in [1..n -> SmallWords], w \in LargeWords } : n \in 0..OobWords }

(***************************************************************************)
(* Driver::Driver and Driver::processContent.                              *)
(***************************************************************************)
\* The numeric fields the constructor adds.
FieldNames ==
    {"current_consumption", "previous_consumption",
     "average_ambient_temperature", "previous_average_ambient_temperature"}

\* The meter after construction: no field has a value.
NoValues == [f \in {} |-> [num |-> 0, den |-> 1]]

\* setNumericValue(field, unit, v)
setNumericValue(values, field, v) ==
    [f \in DOMAIN values \cup {field} |-> IF f = field THEN v ELSE values[f]]

\* renderJsonOnlyDefaultUnit(field, quantity): the text of the stored value.
renderJsonOnlyDefaultUnit(values, field) == <<values[field].num, values[field].den>>

\* t->addSpecialExplanation(pos, len, KindOfData::CONTENT, Understanding::FULL, fmt, ...):
\* the printf arguments are the raw bytes (hex) and the decoded value (arg, and
\* for a rendered field its name).
addSpecialExplanation(expl, pos, len, fmt, hex, name, arg) ==
    Append(expl, [pos |-> pos, len |-> len, kind |-> "CONTENT", understanding |-> "FULL",
                  fmt |-> fmt, hex |-> hex, name |-> name, arg |-> arg])

\* bytes[k]. An index at or past the end reads the byte the heap holds there
\* (undefined behaviour).
At(b, k, heap) == IF k < Len(b) THEN b[k + 1] ELSE heap

\* The test against 0 instead of -1.
NoMfctDataWhenZero(index) == index = 0

\* if (t->mfct_0f_index == -1) return;
NoMfctData(index) == index = -1

\* The test with > instead of >=.
PastEndOffByOne(last, len) == last > len

\* if (i+1 >= len) return;   if (i+3 >= len) return;
PastEnd(last, len) == last >= len

\* The date/time segment checked like a segment of two bytes.
DateTimeLastAsForTwoBytes(i) == i + 1

\* The last index of the 4 byte date/time segment: i+3.
DateTimeLast(i) == i + 3

\* The locals of processContent and what it has written so far.
Entry(expl, values) ==
    [i |-> 0, explanations |-> expl, numeric_values |-> values, reads |-> {},
     returned |-> FALSE]

Return(s) == [s EXCEPT !.returned = TRUE]

\* Lines 114-118: the number of measurements.
NumMeasurements(s, b, offset, heap) ==
    IF s.returned THEN s
    ELSE IF PastEnd(s.i + 1, Len(b)) THEN Return(s)
    ELSE LET num_measurements ==
                 U16(BitOr(ShiftLeft(At(b, s.i + 1, heap), 8), At(b, s.i, heap)))
         IN  [s EXCEPT
                 !.explanations =
                     addSpecialExplanation(@, s.i + offset, 2, "num measurements",
                         <<At(b, s.i, heap), At(b, s.i + 1, heap)>>, "", <<num_measurements>>),
                 !.reads = @ \cup {s.i, s.i + 1},
                 !.i = @ + 2]

\* Lines 120-124: the status word. The format has no conversion for status.
Status(s, b, offset, heap) ==
    IF s.returned THEN s
    ELSE IF PastEnd(s.i + 1, Len(b)) THEN Return(s)
    ELSE [s EXCEPT
             !.explanations =
                 addSpecialExplanation(@, s.i + offset, 2, "status",
                     <<At(b, s.i, heap), At(b, s.i + 1, heap)>>, "", <<>>),
             !.reads = @ \cup {s.i, s.i + 1},
             !.i = @ + 2]

\* Lines 127-134: the device time and date.
DeviceDate(s, b, offset, heap, stack) ==
    IF s.returned THEN s
    ELSE IF PastEnd(DateTimeLast(s.i), Len(b)) THEN Return(s)
    ELSE LET time == U16(BitOr(ShiftLeft(At(b, s.i + 1, heap), 8), At(b, s.i, heap)))
             date == U16(BitOr(ShiftLeft(At(b, s.i + 3, heap), 8), At(b, s.i + 2, heap)))
         IN  [s EXCEPT
                 !.explanations =
                     addSpecialExplanation(@, s.i + offset, 2, "device date",
                         <<At(b, s.i, heap), At(b, s.i + 1, heap),
                           At(b, s.i + 2, heap), At(b, s.i + 3, heap)>>,
                         "", DecodeDateTime(date, time, stack)),
                 !.reads = @ \cup {s.i, s.i + 1, s.i + 2, s.i + 3},
                 !.i = @ + 4]

\* Lines 136-142, 144-150, 152-158, 160-166: a value of two bytes, v its decoding.
Value(s, b, offset, heap, field, v) ==
    IF s.returned THEN s
    ELSE IF PastEnd(s.i + 1, Len(b)) THEN Return(s)
    ELSE LET stored == setNumericValue(s.numeric_values, field, v)
         IN  [s EXCEPT
                 !.numeric_values = stored,
                 !.explanations =
                     addSpecialExplanation(@, s.i + offset, 2, "value",
                         <<At(b, s.i, heap), At(b, s.i + 1, heap)>>,
                         field, renderJsonOnlyDefaultUnit(stored, field)),
                 !.reads = @ \cup {s.i, s.i + 1},
                 !.i = @ + 2]

PreviousConsumption(s, b, offset, heap) ==
    Value(s, b, offset, heap, "previous_consumption",
          toIndicationU(At(b, s.i + 1, heap), At(b, s.i, heap)))

PreviousAverageAmbientTemperature(s, b, offset, heap) ==
    Value(s, b, offset, heap, "previous_average_ambient_temperature",
          toTemperature(At(b, s.i + 1, heap), At(b, s.i, heap)))

CurrentConsumption(s, b, offset, heap) ==
    Value(s, b, offset, heap, "current_consumption",
          toIndicationU(At(b, s.i + 1, heap), At(b, s.i, heap)))

AverageAmbientTemperature(s, b, offset, heap) ==
    Value(s, b, offset, heap, "average_ambient_temperature",
          toTemperature(At(b, s.i + 1, heap), At(b, s.i, heap)))

\* processContent(t): what the call leaves in the telegram and in the meter.
processContent(index, hsize, b, expl, values, stack, heap) ==
    IF NoMfctData(index) THEN Return(Entry(expl, values))
    ELSE LET offset == hsize + index
             s1 == NumMeasurements(Entry(expl, values), b, offset, heap)
             s2 == Status(s1, b, offset, heap)
             s3 == DeviceDate(s2, b, offset, heap, stack)
             s4 == PreviousConsumption(s3, b, offset, heap)
             s5 == PreviousAverageAmbientTemperature(s4, b, offset, heap)
             s6 == CurrentConsumption(s5, b, offset, heap)
         IN  AverageAmbientTemperature(s6, b, offset, heap)

(***************************************************************************)
(* The telegrams handed to processContent.                                 *)
(***************************************************************************)
\* Count 2 and a status word.
HeaderSamples == { <<2, 0, 52, 18>> }

\* Time (2 bytes) then date (2 bytes), low byte first:
\*   time 6500, day 306 of 2003;  time 43200, day 511 of 2000;
\*   time 43199, day 366 of 2023 (a year of 365 days).
DateTimeSamples == { <<100, 25, 50, 7>>, <<192, 168, 255, 1>>, <<191, 168, 110, 47>> }

ValueSamples == { <<232, 3, 15, 39, 16, 0, 255, 255>>, <<1, 2, 3, 4, 5, 6, 7, 8>> }

Frames == { h \o d \o v : h \in HeaderSamples, d \in DateTimeSamples, v \in ValueSamples }

\* The first n bytes of a frame, continued with 170 past its end.
Prefix(f, n) == [k \in 1..n |-> IF k <= Len(f) THEN f[k] ELSE 170]

Payloads == { Prefix(f, n) : f \in Frames, n \in 0..MaxLen }

HeaderSizes == {10, 15}

MfctIndexes == {-1, 3}

\* What the telegram holds before the driver sees it: nothing, or the
\* explanation of its header.
PriorExplanations ==
    { <<>>,
      <<[pos |-> 0, len |-> 10, kind |-> "PROTOCOL", understanding |-> "FULL",
         fmt |-> "header", hex |-> <<>>, name |-> "", arg |-> <<>>]>> }

HeapBytes == {0, 255}

(***************************************************************************)
(* The caller: a telegram arrives, processContent runs, the telegram goes. *)
(***************************************************************************)
Init ==
    /\ pc = "idle"
    /\ mfct_0f_index = -1
    /\ header_size = 0
    /\ bytes = <<>>
    /\ explanations = <<>>
    /\ numeric_values = NoValues
    /\ reads = {}
    /\ first = <<>>
    /\ encodedDate = 0
    /\ encodedTime = 0
    /\ decodedDateTime = <<>>
    /\ tableReads = {}

\* A telegram for the meter, which keeps the values of earlier telegrams.
NewTelegram ==
    /\ pc = "idle"
    /\ pc' = "ready"
    /\ mfct_0f_index' \in MfctIndexes
    /\ header_size' \in HeaderSizes
    /\ bytes' \in Payloads
    /\ explanations' \in PriorExplanations
    /\ reads' = {}
    /\ UNCHANGED <<numeric_values, first>>
    /\ UNCHANGED dateVars

\* The call of processContent(t), whole.
ProcessContent ==
    /\ pc = "ready"
    /\ pc' = "done"
    /\ \E stack \in StackImages, heap \in HeapBytes :
         LET r == processContent(mfct_0f_index, header_size, bytes, explanations,
                                 numeric_values, stack, heap)
         IN  /\ explanations' = r.explanations
             /\ numeric_values' = r.numeric_values
             /\ reads' = r.reads
    /\ UNCHANGED <<mfct_0f_index, header_size, bytes, first>>
    /\ UNCHANGED dateVars

\* Keep the call just made, to compare a later one with it.
Remember ==
    /\ pc = "done"
    /\ first = <<>>
    /\ first' = << [mfct_0f_index |-> mfct_0f_index, header_size |-> header_size,
                    bytes |-> bytes, explanations |-> explanations,
                    numeric_values |-> numeric_values] >>
    /\ UNCHANGED <<pc, mfct_0f_index, header_size, bytes, explanations,
                   numeric_values, reads>>
    /\ UNCHANGED dateVars

\* The telegram is done with.
Release ==
    /\ pc = "done"
    /\ pc' = "idle"
    /\ mfct_0f_index' = -1
    /\ header_size' = 0
    /\ bytes' = <<>>
    /\ explanations' = <<>>
    /\ reads' = {}
    /\ UNCHANGED <<numeric_values, first>>
    /\ UNCHANGED dateVars

Next == NewTelegram \/ ProcessContent \/ Release

Spec == Init /\ [][Next]_vars

(***************************************************************************)
(* One telegram decoded again and again, each time into a newly            *)
(* constructed meter and with no explanation yet.                          *)
(***************************************************************************)
InitTwice ==
    /\ pc = "ready"
    /\ mfct_0f_index \in MfctIndexes
    /\ header_size \in HeaderSizes
    /\ bytes \in Payloads
    /\ explanations = <<>>
    /\ numeric_values = NoValues
    /\ reads = {}
    /\ first = <<>>
    /\ encodedDate = 0
    /\ encodedTime = 0
    /\ decodedDateTime = <<>>
    /\ tableReads = {}

\* The same telegram once more, for a new meter.
Again ==
    /\ pc = "done"
    /\ pc' = "ready"
    /\ explanations' = <<>>
    /\ numeric_values' = NoValues
    /\ reads' = {}
    /\ UNCHANGED <<mfct_0f_index, header_size, bytes, first>>
    /\ UNCHANGED dateVars

NextTwice == ProcessContent \/ Remember \/ Again

SpecTwice == InitTwice /\ [][NextTwice]_vars

(***************************************************************************)
(* DecodeDateTime on its own.                                              *)
(***************************************************************************)
DayFields == 0..511

YearOffsets == {0, 1, 4, 23, 24, 100, 127}

DateSamples == { yo * 512 + d : yo \in YearOffsets, d \in DayFields }

TimeSamples == {0, 1799, 1800, 43199, 43200, 65535}

InitDate ==
    /\ pc = "idle"
    /\ mfct_0f_index = -1
    /\ header_size = 0
    /\ bytes = <<>>
    /\ explanations = <<>>
    /\ numeric_values = NoValues
    /\ reads = {}
    /\ first = <<>>
    /\ encodedDate \in DateSamples
    /\ encodedTime \in TimeSamples
    /\ decodedDateTime = <<>>
    /\ tableReads = {}

CallDecodeDateTime ==
    /\ decodedDateTime = <<>>
    /\ \E stack \in StackImages :
         /\ decodedDateTime' = DecodeDateTime(encodedDate, encodedTime, stack)
         /\ tableReads' = DecodeDateTimeReads(encodedDate, stack)
    /\ UNCHANGED <<encodedDate, encodedTime>>
    /\ UNCHANGED telegramVars

NextDate == CallDecodeDateTime

SpecDate == InitDate /\ [][NextDate]_vars

(***************************************************************************)
(* The payload layout the properties are stated against: the seven         *)
(* segments in order, with the first and last byte of each.                *)
(***************************************************************************)
Segments == 1..7

SegmentFirst == <<0, 2, 4, 8, 10, 12, 14>>

SegmentLast == <<1, 3, 7, 9, 11, 13, 15>>

SegmentFmt == <<"num measurements", "status", "device date", "value", "value", "value", "value">>

SegmentField ==
    <<"", "", "", "previous_consumption", "previous_average_ambient_temperature",
      "current_consumption", "average_ambient_temperature">>

\* The segments whose bytes all lie within a payload of len bytes.
Fitting(len) == { k \in Segments : SegmentLast[k] < len }

\* The step in which processContent runs.
Decoding == pc = "ready" /\ pc' = "done"

\* The explanations the call added to the n the telegram had.
Added(before, after) == SubSeq(after, Len(before) + 1, Len(after))

\* The 16 bit number of two bytes in transmission order, the second the high one.
Pair(b, p) == b[p + 2] * 256 + b[p + 1]

(***************************************************************************)
(* Properties of processContent.                                           *)
(***************************************************************************)
\* C1: with manufacturer data present, a call adds explanations and sets
\* values for exactly the segments that fit in the payload, in order, and
\* leaves every field of a segment that does not fit as it was.
C1_PrefixOfSegments ==
    [][ (Decoding /\ mfct_0f_index # -1) =>
          LET n == Len(explanations)
              fit == Fitting(Len(bytes))
          IN  /\ Len(explanations') = n + Cardinality(fit)
              /\ \A j \in 1..n : explanations'[j] = explanations[j]
              /\ \A k \in fit :
                   /\ explanations'[n + k].pos = header_size + mfct_0f_index + SegmentFirst[k]
                   /\ explanations'[n + k].fmt = SegmentFmt[k]
                   /\ explanations'[n + k].name = SegmentField[k]
              /\ \A k \in 4..7 :
                   LET f == SegmentField[k]
                   IN  IF k \in fit
                       THEN f \in DOMAIN numeric_values'
                       ELSE /\ (f \in DOMAIN numeric_values') = (f \in DOMAIN numeric_values)
                            /\ f \in DOMAIN numeric_values =>
                                 numeric_values'[f] = numeric_values[f]
      ]_vars

\* A payload of 13 bytes decoded into a meter with no earlier value: five
\* segments, the last four bytes' fields unset.
C1_Witness ==
    /\ pc = "done"
    /\ mfct_0f_index # -1
    /\ Len(bytes) = 13
    /\ reads = 0..11
    /\ DOMAIN numeric_values = {"previous_consumption", "previous_average_ambient_temperature"}

\* C2: every index at which a call read the payload is below its length.
C2_ReadsWithinPayload ==
    pc = "done" => \A k \in reads : 0 <= k /\ k < Len(bytes)

\* A payload that ends inside the date/time segment: only the two segments
\* before it were read.
C2_Witness ==
    /\ pc = "done"
    /\ Len(bytes) = 7
    /\ reads = 0..3

\* C6: the explanations a call adds tile the decoded bytes: the first starts
\* at header_size + mfct_0f_index, each next one where the one before ended,
\* and the date/time one is 4 bytes long.
C6_ExplanationsTile ==
    [][ (Decoding /\ mfct_0f_index # -1) =>
          LET new == Added(explanations, explanations')
          IN  /\ new # <<>> => new[1].pos = header_size + mfct_0f_index
              /\ \A j \in 1..(Len(new) - 1) : new[j + 1].pos = new[j].pos + new[j].len
              /\ Len(new) >= 3 => new[3].len = 4
      ]_vars

\* C7: a call for a telegram without manufacturer data changes neither the
\* telegram's explanations nor the meter's values, and reads no payload byte.
C7_NoMfctDataNoEffect ==
    [][ (Decoding /\ mfct_0f_index = -1) =>
          /\ explanations' = explanations
          /\ numeric_values' = numeric_values
          /\ reads' = {}
      ]_vars

\* Such a call made with earlier values in the meter, an explanation in the
\* telegram and bytes that could have been decoded.
C7_Witness ==
    /\ pc = "done"
    /\ mfct_0f_index = -1
    /\ Len(bytes) = 16
    /\ Len(explanations) = 1
    /\ DOMAIN numeric_values = FieldNames

\* The scalar decoders on every pair of bytes.
ScalarDecodersExact ==
    \A hi \in 0..255, lo \in 0..255 :
        /\ toIndicationU(hi, lo) = [num |-> hi * 256 + lo, den |-> 10]
        /\ toTemperature(hi, lo) = [num |-> hi * 256 + lo, den |-> 100]

\* C8: each decoded value is the 16 bit number of its two bytes, the second
\* byte the high one, over 10 (consumptions) or over 100 (temperatures); the
\* time is taken from the first two bytes of the date/time segment and the
\* date from the last two.
C8_ValuesFromBytes ==
    (pc = "done" /\ mfct_0f_index # -1) =>
        /\ ScalarDecodersExact
        /\ \A k \in 4..7 :
             k \in Fitting(Len(bytes)) =>
                numeric_values[SegmentField[k]] =
                    [num |-> Pair(bytes, SegmentFirst[k]),
                     den |-> IF k \in {4, 6} THEN 10 ELSE 100]
        /\ 3 \in Fitting(Len(bytes)) =>
             \E e \in { explanations[j] : j \in 1..Len(explanations) } :
                /\ e.fmt = "device date"
                /\ e.arg \in { DecodeDateTime(Pair(bytes, 6), Pair(bytes, 4), stack) :
                                 stack \in StackImages }

\* All four values decoded from a whole payload.
C8_Witness ==
    /\ pc = "done"
    /\ mfct_0f_index # -1
    /\ Len(bytes) = 16
    /\ numeric_values["previous_consumption"] = [num |-> 1000, den |-> 10]
    /\ numeric_values["previous_average_ambient_temperature"] = [num |-> 9999, den |-> 100]

\* C9: a telegram decoded a second time, into a new meter and with no
\* explanation yet, gives the values and the explanations of the first time.
C9_SameTelegramSameResult ==
    (pc = "done" /\ first # <<>>) =>
        /\ explanations = first[1].explanations
        /\ numeric_values = first[1].numeric_values

(***************************************************************************)
(* Properties of DecodeDateTime.                                           *)
(***************************************************************************)
\* DecodeDateTime has returned.
Called == tableReads # {}

\* Bits 0-8 of the encoded date.
DayField == encodedDate % 512

\* Bits 9-15 of the encoded date, from 2000.
YearField == 2000 + (encodedDate \div 512)

\* The hour, minutes and seconds of the returned timestamp.
TimeOfDay == SubSeq(decodedDateTime, 4, 6)

\* C3: for a day-of-year field outside 1..366 or an encoded time above 43199
\* the call reports a failure and returns no timestamp.
C3_MalformedIsReported ==
    (Called /\ (DayField \notin 1..366 \/ encodedTime > 43199)) =>
        Len(decodedDateTime) # 6

\* C4 as stated: 0 -> 00:00:00, 1799 -> 00:29:58, 1800 -> 01:00:00,
\* 43199 -> 23:59:58, whatever the date.
C4_TimesAsStated ==
    Called =>
        /\ encodedTime = 0 => TimeOfDay = <<0, 0, 0>>
        /\ encodedTime = 1799 => TimeOfDay = <<0, 29, 58>>
        /\ encodedTime = 1800 => TimeOfDay = <<1, 0, 0>>
        /\ encodedTime = 43199 => TimeOfDay = <<23, 59, 58>>

\* C4 amended: 0 -> 00:00:00, 1799 -> 00:59:14, 1800 -> 01:00:00,
\* 43199 -> 23:59:14, whatever the date.
C4_TimesAsDecoded ==
    Called =>
        /\ encodedTime = 0 => TimeOfDay = <<0, 0, 0>>
        /\ encodedTime = 1799 => TimeOfDay = <<0, 59, 14>>
        /\ encodedTime = 1800 => TimeOfDay = <<1, 0, 0>>
        /\ encodedTime = 43199 => TimeOfDay = <<23, 59, 14>>

\* The last tick of a day decoded together with a date past the end of its year.
C4_Witness ==
    /\ Called
    /\ encodedTime = 43199
    /\ DayField = 400
    /\ TimeOfDay = <<23, 59, 14>>

\* C5: day 60 is February 29 (month 2, day 29) in the leap years 2000, 2004
\* and 2024 and March 1 (month 3, day 1) in 2023 and 2100, in the month and
\* day of the returned timestamp.
C5_DaySixty ==
    (Called /\ DayField = 60) =>
        /\ YearField \in {2000, 2004, 2024} =>
             decodedDateTime[2] = 2 /\ decodedDateTime[3] = 29
        /\ YearField \in {2023, 2100} =>
             decodedDateTime[2] = 3 /\ decodedDateTime[3] = 1

\* C10: for a day-of-year field in 1..366 the walk ends with the month index
\* in 0..11 and reads daysInMonths only at indices 0..11.
C10_WalkStaysInTable ==
    (Called /\ DayField \in 1..366) =>
        /\ decodedDateTime[2] \in 0..11
        /\ tableReads \subseteq 0..11

====
